---- MODULE Spec2Model ----
(***************************************************************************)
(* Tinnitus Care: the TinnitusAudioEngine (src/app.js, lines 387-869) and  *)
(* the UI handlers that drive it (toggleTherapy, toggleTestTone,           *)
(* selectSound and the slider handlers), with the buffer synthesizers.     *)
(*                                                                         *)
(* A state is what an observer sees between two turns of the event loop.   *)
(* One action is one turn: a handler from its call to its first real       *)
(* suspension, or the continuation of a suspended call.  The only real     *)
(* suspension is the promise of audioContext.resume(): an await on an      *)
(* already settled promise continues in the same turn (microtask).         *)
(*                                                                         *)
(* Units: time is in whole seconds (Date.now() / 1000), gain values are in *)
(* hundredths (0.5 is 50), frequencies are in Hz.                          *)
(***************************************************************************)
EXTENDS Integers, Sequences, FiniteSets, TLC

\* ------------------------------------------------------------------ bounds
\* the clock stops the model after this many seconds
MaxNow == 2
\* audio nodes alive at one time besides those of initAudioContext
MaxNodes == 6
\* calls suspended at audioContext.resume() at one time
MaxPending == 2
\* seconds the long-session specification runs past the 30-minute mark
AutoStopSlack == 2

\* longest duration handed to a synthesizer, in half seconds
MaxHalfSeconds == 4
\* highest sample rate of the context, in samples per second
MaxSampleRate == 3

\* ------------------------------------------------------- program constants
\* the JavaScript null of the constructor's fields
Null == 0
\* object identities of the nodes built by initAudioContext
ContextId == 1
DestinationId == 2
MasterGainId == 3
AnalyserId == 4
\* constructor defaults
DefaultFrequency == 4000
DefaultVolume == 50
\* gain of the test tone (0.3) and of the therapy chain (0.7), Q of the notch
TestToneGain == 30
TherapyGainValue == 70
NotchQ == 30
\* the frequency domain the UI documents
MinFrequency == 250
MaxFrequency == 16000
\* 30 minutes, the session length the auto-stop notification announces
AutoStopSeconds == 1800

\* the texture identifiers of the sound cards, and one that is none of them
Textures == {"whitenoise", "rain", "wave", "forest", "night", "temple"}
SoundInputs == {"rain", "harp"}
CoreSounds == {"rain"}
\* values the frequency slider, the presets and updateFrequency hand to
\* setFrequency
FrequencyInputs == {-100, 4000, 99999}
CoreFrequencies == {8000}
\* values handed to setVolume, in hundredths
VolumeInputs == {-50, 50, 150}
CoreVolumes == {150}

VARIABLES
    audioContext,      \* Null or ContextId
    ctxState,          \* audioContext.state: "suspended", "running", "closed"; "none" without a context
    masterGain,        \* Null or MasterGainId
    analyser,          \* Null or AnalyserId
    nodes,             \* the audio nodes alive: id -> node record
    testOscillator,
    testGain,
    therapySource,
    therapyGain,
    notchFilter,
    isTestTonePlaying,
    isTherapyPlaying,
    currentFrequency,
    currentVolume,
    currentSound,
    therapyStartTime,
    therapyDuration,
    timerInterval,     \* Null or the id setInterval returned
    liveTimers,        \* ids of the intervals set and not cleared
    now,               \* Date.now(), in seconds
    pending,           \* calls suspended at audioContext.resume(), oldest first
    therapyBtnPlaying, \* the therapy button carries the class 'playing'
    testToneBtnPlaying,\* the test tone button carries the class 'playing'
    autoStopCalls,     \* invocations of audioEngine.onAutoStop
    synth,             \* the buffer synthesizer: its call, its loops, its buffer
    last               \* the handler or continuation that ran in the last turn

engineVars == <<audioContext, ctxState, masterGain, analyser>>
testVars == <<testOscillator, testGain, isTestTonePlaying>>
therapyVars == <<therapySource, therapyGain, notchFilter, isTherapyPlaying>>
paramVars == <<currentFrequency, currentVolume, currentSound>>
timerVars == <<therapyStartTime, timerInterval, liveTimers>>
uiVars == <<therapyBtnPlaying, testToneBtnPlaying>>
vars == <<engineVars, nodes, testVars, therapyVars, paramVars, timerVars,
          therapyDuration, now, pending, uiVars, autoStopCalls, synth, last>>

\* ----------------------------------------------------------------- helpers
Max(S) == CHOOSE x \in S : \A y \in S : y <= x
Min(S) == CHOOSE x \in S : \A y \in S : x <= y

NoBuffer == [texture |-> "none", duration |-> 0]

\* a node of the audio graph; param is frequency.value or gain.value; faulty
\* marks a node whose stop() and disconnect() raise (see NodeFault)
Node(kind, param, q, buffer, loop) ==
    [kind |-> kind, state |-> "created", out |-> {}, param |-> param,
     q |-> q, buffer |-> buffer, loop |-> loop, faulty |-> FALSE]

\* the identity of the next object the context creates: one no live object has
NewId(ns) ==
    Min({i \in (AnalyserId + 1)..(AnalyserId + 1 + Cardinality(DOMAIN ns)) :
            i \notin DOMAIN ns})

\* nodes created after initAudioContext
Dynamic(ns) == {id \in DOMAIN ns : id > AnalyserId}

\* whether ns has room for k more nodes
Room(ns, k) == Cardinality(Dynamic(ns)) + k <= MaxNodes

Created(ns, id, node) == [i \in DOMAIN ns \cup {id} |-> IF i = id THEN node ELSE ns[i]]

\* AudioNode.connect(dest): connecting twice to one destination is one connection
Connected(ns, id, dest) == [ns EXCEPT ![id].out = @ \cup {dest}]

\* AudioNode.disconnect(): drops every outgoing connection
Disconnected(ns, id) == [ns EXCEPT ![id].out = {}]

\* AudioScheduledSourceNode.start() / stop()
Started(ns, id) == [ns EXCEPT ![id].state = "started"]
Stopped(ns, id) == [ns EXCEPT ![id].state = "stopped"]

\* stop() before start() raises InvalidStateError; every call on a faulty
\* node raises
StopRaises(ns, id) == ns[id].state = "created" \/ ns[id].faulty

\* disconnect() without arguments raises on a faulty node only
DisconnectRaises(ns, id) == ns[id].faulty

\* The garbage collector: a node stays alive while the engine holds it
\* (roots), while it is a source that was started and not stopped, or while a
\* live node is connected to it; the rest is dropped
RECURSIVE Reach(_, _)
Reach(ns, S) ==
    LET T == S \cup {d \in DOMAIN ns : \E i \in S \cap DOMAIN ns : d \in ns[i].out}
    IN  IF T = S THEN S ELSE Reach(ns, T)

Collect(ns, roots) ==
    LET keep == Reach(ns, (roots \cup {MasterGainId, AnalyserId}
                           \cup {i \in DOMAIN ns : ns[i].state = "started"})
                          \cap DOMAIN ns)
    IN  [i \in keep |-> ns[i]]

\* AudioParam.setValueAtTime(value, currentTime)
ParamSet(ns, id, value) == [ns EXCEPT ![id].param = value]

\* what the last turn ran: op, its arguments and how the call ended
\* ("ok", "pending" at resume(), "rejected" promise, "raised" exception)
Ran(op, soundType, isSwitching, outcome) ==
    [op |-> op, soundType |-> soundType, isSwitching |-> isSwitching,
     outcome |-> outcome]

\* a call suspended at `await this.resumeContext()`
Call(op, soundType, isSwitching, caller) ==
    [op |-> op, soundType |-> soundType, isSwitching |-> isSwitching,
     caller |-> caller]

\* ------------------------------------------------------- the synthesizer
\* Sample values are fixed-point numbers: FixedOne stands for 1.0
FixedOne == 10000
\* line 569 (rain) and line 592 (wave): (lastOut + (0.02 * white)) / 1.002
BrownGain == 200
BrownDivisor == 10020
\* createBuffer(2, ...) and `channel < 2`
Channels == 2

\* Math.random() * 2 - 1 lies in [-1, 1): its two ends
WhiteInputs == {-FixedOne, FixedOne - 1}

IsBrown(texture) == texture \in {"rain", "wave"}

SynthIdle ==
    [phase |-> "idle", texture |-> "none", halfSeconds |-> 0, sampleRate |-> 0,
     length |-> 0, channel |-> 0, i |-> 0, written |-> [c \in 1..Channels |-> {}],
     lastOut |-> 0, prev |-> 0, white |-> 0, out |-> 0]

\* a buffer one sample shorter than asked for
BufferLengthShort(sampleRate, halfSeconds) == (sampleRate * halfSeconds) \div 2 - 1

\* bufferSize = sampleRate * duration is handed to createBuffer, which takes
\* an unsigned long: the fraction is dropped
BufferLength(sampleRate, halfSeconds) == (sampleRate * halfSeconds) \div 2

\* let out = (lastOut + (0.02 * white)) / 1.002
BrownStep(lastOut, white) ==
    (lastOut * FixedOne + BrownGain * white) \div BrownDivisor

\* ---------------------------------------------------------------- the engine
\* constructor + initAudioContext: the context is built, or its constructor
\* throws and the catch leaves audioContext, masterGain and analyser null
InitialNodes ==
    [i \in {MasterGainId, AnalyserId} |->
        IF i = MasterGainId
        THEN [Node("gain", DefaultVolume, 0, NoBuffer, FALSE) EXCEPT !.out = {DestinationId}]
        ELSE [Node("analyser", 0, 0, NoBuffer, FALSE) EXCEPT !.out = {MasterGainId}]]

Init ==
    /\ \/ /\ audioContext = ContextId
          /\ ctxState \in {"suspended", "running"}
          /\ masterGain = MasterGainId
          /\ analyser = AnalyserId
          /\ nodes = InitialNodes
       \/ /\ audioContext = Null
          /\ ctxState = "none"
          /\ masterGain = Null
          /\ analyser = Null
          /\ nodes = << >>
    /\ testOscillator = Null
    /\ testGain = Null
    /\ therapySource = Null
    /\ therapyGain = Null
    /\ notchFilter = Null
    /\ isTestTonePlaying = FALSE
    /\ isTherapyPlaying = FALSE
    /\ currentFrequency = DefaultFrequency
    /\ currentVolume = DefaultVolume
    /\ currentSound = "whitenoise"
    /\ therapyStartTime = Null
    /\ therapyDuration = 0
    /\ timerInterval = Null
    /\ liveTimers = {}
    /\ now = 1
    /\ pending = << >>
    /\ therapyBtnPlaying = FALSE
    /\ testToneBtnPlaying = FALSE
    /\ autoStopCalls = 0
    /\ synth = SynthIdle
    /\ last = Ran("constructor", "none", FALSE, "ok")

\* ------------------------------------------------------------- test tone
\* stopTestTone, lines 523-537: the oscillator's stop() is the only call that
\* can raise, and it is the first one
StopTestToneRaises == testOscillator # Null /\ StopRaises(nodes, testOscillator)

\* a stopTestTone that disconnects the therapy gain with its own
StopTestToneNodesAndTherapyGain(ns) ==
    LET a == IF testOscillator # Null
             THEN Disconnected(Stopped(ns, testOscillator), testOscillator)
             ELSE ns
        b == IF testGain # Null THEN Disconnected(a, testGain) ELSE a
    IN  IF therapyGain # Null THEN Disconnected(b, therapyGain) ELSE b

StopTestToneNodes(ns) ==
    LET a == IF testOscillator # Null
             THEN Disconnected(Stopped(ns, testOscillator), testOscillator)
             ELSE ns
    IN  IF testGain # Null THEN Disconnected(a, testGain) ELSE a

stopTestToneFields ==
    /\ testOscillator' = Null
    /\ testGain' = Null
    /\ isTestTonePlaying' = FALSE

\* testGain.disconnect() raises, line 531: the oscillator is released, the
\* gain and the flag are left as they were
TestGainDisconnectRaises == testGain # Null /\ DisconnectRaises(nodes, testGain)

StopTestToneFails == StopTestToneRaises \/ TestGainDisconnectRaises

\* lines 524-528 alone
StopTestOscillatorNodes(ns) ==
    IF testOscillator # Null
    THEN Disconnected(Stopped(ns, testOscillator), testOscillator)
    ELSE ns

stopTestTone ==
    IF StopTestToneRaises
    THEN UNCHANGED <<nodes, testVars>>
    ELSE IF TestGainDisconnectRaises
    THEN /\ nodes' = Collect(StopTestOscillatorNodes(nodes),
                             {testGain, therapySource, notchFilter, therapyGain})
         /\ testOscillator' = Null
         /\ UNCHANGED <<testGain, isTestTonePlaying>>
    ELSE /\ nodes' = Collect(StopTestToneNodes(nodes), {therapySource, notchFilter, therapyGain})
         /\ stopTestToneFields

\* playTestTone after its await, lines 492-517
playTestToneResumed ==
    IF isTestTonePlaying
    THEN stopTestTone
    ELSE LET osc == NewId(nodes)
             a == Created(nodes, osc, Node("oscillator", currentFrequency, 0, NoBuffer, FALSE))
             gain == NewId(a)
             b == Created(a, gain, Node("gain", TestToneGain, 0, NoBuffer, FALSE))
             c == Connected(Connected(b, osc, gain), gain, masterGain)
         IN  /\ Room(b, 0)
             /\ nodes' = Started(c, osc)
             /\ testOscillator' = osc
             /\ testGain' = gain
             /\ isTestTonePlaying' = TRUE

PlayTestToneOutcome ==
    IF isTestTonePlaying /\ StopTestToneFails THEN "rejected" ELSE "ok"

\* ---------------------------------------------------------------- the timer
\* setInterval returns an id no live interval has; a cleared id is never held
\* by the program again (stopTimer nulls the handle)
NewTimerId == Min({i \in 1..(Cardinality(liveTimers) + 1) : i \notin liveTimers})

\* startTimer, lines 810-816
startTimer ==
    /\ therapyStartTime' = now
    /\ timerInterval' = NewTimerId
    /\ liveTimers' = liveTimers \cup {NewTimerId}

\* a stopTimer that drops the handle without clearInterval
stopTimerWithoutClear ==
    /\ UNCHANGED <<therapyStartTime, liveTimers>>
    /\ timerInterval' = Null

\* stopTimer, lines 821-826
stopTimer ==
    /\ UNCHANGED therapyStartTime
    /\ IF timerInterval # Null
       THEN liveTimers' = liveTimers \ {timerInterval} /\ timerInterval' = Null
       ELSE UNCHANGED <<liveTimers, timerInterval>>

\* ------------------------------------------------------------------ therapy
\* the switch of startTherapy, lines 721-742: the synthesizer called and the
\* duration it is given; an unknown identifier takes the default branch
\* a switch whose default branch synthesizes rain
CreateBufferDefaultRain(soundType) ==
    CASE soundType = "whitenoise" -> [texture |-> "whitenoise", duration |-> 2]
      [] soundType = "wave" -> [texture |-> "wave", duration |-> 6]
      [] soundType = "forest" -> [texture |-> "forest", duration |-> 4]
      [] soundType = "night" -> [texture |-> "night", duration |-> 3]
      [] soundType = "temple" -> [texture |-> "temple", duration |-> 4]
      [] OTHER -> [texture |-> "rain", duration |-> 4]

CreateBuffer(soundType) ==
    CASE soundType = "whitenoise" -> [texture |-> "whitenoise", duration |-> 2]
      [] soundType = "rain" -> [texture |-> "rain", duration |-> 4]
      [] soundType = "wave" -> [texture |-> "wave", duration |-> 6]
      [] soundType = "forest" -> [texture |-> "forest", duration |-> 4]
      [] soundType = "night" -> [texture |-> "night", duration |-> 3]
      [] soundType = "temple" -> [texture |-> "temple", duration |-> 4]
      [] OTHER -> [texture |-> "whitenoise", duration |-> 2]

\* createNotchFilter, lines 687-693
createNotchFilter(frequency) == Node("notch", frequency, NotchQ, NoBuffer, FALSE)

\* a stopTherapy without the test `if (this.therapySource)`: stop() is called
\* on null when no source is held
StopTherapyRaisesUnguarded == therapySource = Null \/ StopRaises(nodes, therapySource)

\* stopTherapy, lines 784-805
StopTherapyRaises == therapySource # Null /\ StopRaises(nodes, therapySource)

\* a stopTherapy that disconnects the source without stopping it
StopTherapyNodesWithoutStop(ns) ==
    LET a == IF therapySource # Null THEN Disconnected(ns, therapySource) ELSE ns
        b == IF notchFilter # Null THEN Disconnected(a, notchFilter) ELSE a
    IN  IF therapyGain # Null THEN Disconnected(b, therapyGain) ELSE b

StopTherapyNodes(ns) ==
    LET a == IF therapySource # Null
             THEN Disconnected(Stopped(ns, therapySource), therapySource)
             ELSE ns
        b == IF notchFilter # Null THEN Disconnected(a, notchFilter) ELSE a
    IN  IF therapyGain # Null THEN Disconnected(b, therapyGain) ELSE b

\* a stopTherapy that disconnects the notch filter and keeps its handle
stopTherapyFieldsKeepingFilter ==
    /\ therapySource' = Null
    /\ notchFilter' = notchFilter
    /\ therapyGain' = Null
    /\ isTherapyPlaying' = FALSE
    /\ stopTimer

stopTherapyFields ==
    /\ therapySource' = Null
    /\ notchFilter' = Null
    /\ therapyGain' = Null
    /\ isTherapyPlaying' = FALSE
    /\ stopTimer

\* notchFilter.disconnect() raises, line 792, or therapyGain.disconnect(),
\* line 797: what comes before has been done, the rest is skipped
FilterDisconnectRaises == notchFilter # Null /\ DisconnectRaises(nodes, notchFilter)

GainDisconnectRaises == therapyGain # Null /\ DisconnectRaises(nodes, therapyGain)

StopTherapyFails ==
    StopTherapyRaises \/ FilterDisconnectRaises \/ GainDisconnectRaises

\* lines 785-789 alone, and lines 785-794 alone
StopTherapySourceNodes(ns) ==
    IF therapySource # Null
    THEN Disconnected(Stopped(ns, therapySource), therapySource)
    ELSE ns

StopTherapyFilterNodes(ns) ==
    LET a == StopTherapySourceNodes(ns)
    IN  IF notchFilter # Null THEN Disconnected(a, notchFilter) ELSE a

\* the nodes and the fields as a stopTherapy that raises leaves them
StopTherapyPartNodes(ns) ==
    IF StopTherapyRaises THEN ns
    ELSE IF FilterDisconnectRaises THEN StopTherapySourceNodes(ns)
    ELSE StopTherapyFilterNodes(ns)

stopTherapyPartFields ==
    /\ therapySource' = IF StopTherapyRaises THEN therapySource ELSE Null
    /\ notchFilter' = IF StopTherapyRaises \/ FilterDisconnectRaises
                      THEN notchFilter ELSE Null
    /\ UNCHANGED <<therapyGain, isTherapyPlaying, timerVars>>

stopTherapy ==
    IF StopTherapyRaises
    THEN UNCHANGED <<nodes, therapyVars, timerVars>>
    ELSE IF StopTherapyFails
    THEN /\ nodes' = Collect(StopTherapyPartNodes(nodes),
                             {notchFilter, therapyGain, testOscillator, testGain})
         /\ stopTherapyPartFields
    ELSE /\ nodes' = Collect(StopTherapyNodes(nodes), {testOscillator, testGain})
         /\ stopTherapyFields

\* a switch that leaves the playing source as it is
SwitchCleanupSkipped(ns, isSwitching) == ns

\* lines 709-715: a switch stops and disconnects the playing source; the
\* try/catch swallows what stop() raises
SwitchCleanup(ns, isSwitching) ==
    IF isSwitching /\ therapySource # Null /\ ~StopRaises(ns, therapySource)
    THEN Disconnected(Stopped(ns, therapySource), therapySource)
    ELSE ns

\* lines 717-776: the new source, the filter and the gain if absent, the
\* connections, start(), the flag and (not switching) the timer.  The tests
\* on `.connected` (lines 762, 765) are always true: audio nodes have no such
\* field, so both connect() calls are made every time
startTherapyBody(soundType, isSwitching) ==
    LET a == SwitchCleanup(nodes, isSwitching)
        src == NewId(a)
        b == Created(a, src, Node("bufferSource", 0, 0, CreateBuffer(soundType), TRUE))
        flt == IF notchFilter # Null THEN notchFilter ELSE NewId(b)
        c == IF notchFilter # Null THEN b
             ELSE Created(b, flt, createNotchFilter(currentFrequency))
        gn == IF therapyGain # Null THEN therapyGain ELSE NewId(c)
        d == IF therapyGain # Null THEN c
             ELSE Created(c, gn, Node("gain", TherapyGainValue, 0, NoBuffer, FALSE))
        e == Connected(Connected(Connected(d, src, flt), flt, gn), gn, analyser)
    IN  /\ Room(b, Cardinality({h \in {notchFilter, therapyGain} : h = Null}))
        /\ currentSound' = soundType
        /\ nodes' = Collect(Started(e, src), {src, flt, gn, testOscillator, testGain})
        /\ therapySource' = src
        /\ notchFilter' = flt
        /\ therapyGain' = gn
        /\ isTherapyPlaying' = TRUE
        /\ IF isSwitching THEN UNCHANGED timerVars ELSE startTimer

\* a startTherapy without the toggle of lines 704-707
startTherapyAlwaysStarts(soundType, isSwitching, snd) ==
    startTherapyBody(soundType, isSwitching)

\* startTherapy after its await, lines 703-779; snd is currentSound as the
\* caller left it
startTherapyResumed(soundType, isSwitching, snd) ==
    IF isTherapyPlaying /\ ~isSwitching
    THEN stopTherapy /\ currentSound' = snd
    ELSE startTherapyBody(soundType, isSwitching)

StartTherapyOutcome(isSwitching) ==
    IF isTherapyPlaying /\ ~isSwitching /\ StopTherapyFails THEN "rejected" ELSE "ok"

\* ------------------------------------------------------- calls and handlers
\* the code of call c after `await this.resumeContext()`, followed by what its
\* caller does after its own await (toggleTherapy lines 173-176,
\* toggleTestTone lines 99-101): a rejected call skips the caller's rest
ContinueOutcome(c) ==
    IF c.op = "startTherapy" THEN StartTherapyOutcome(c.isSwitching)
    ELSE PlayTestToneOutcome

Continue(c, snd) ==
    /\ IF c.op = "startTherapy"
       THEN startTherapyResumed(c.soundType, c.isSwitching, snd) /\ UNCHANGED testVars
       ELSE /\ playTestToneResumed
            /\ currentSound' = snd
            /\ UNCHANGED <<therapyVars, timerVars>>
    /\ therapyBtnPlaying' =
          IF c.caller = "toggleTherapy" /\ ContinueOutcome(c) = "ok"
          THEN TRUE ELSE therapyBtnPlaying
    /\ testToneBtnPlaying' =
          IF c.caller = "toggleTestTone" /\ ContinueOutcome(c) = "ok"
          THEN TRUE ELSE testToneBtnPlaying
    /\ last' = Ran(c.op, c.soundType, c.isSwitching, ContinueOutcome(c))

\* a startTherapy that stops the playing source of a switch before its await
InvokeCleaningFirst(c, snd) ==
    IF audioContext = Null
    THEN /\ currentSound' = snd
         /\ last' = Ran(c.op, c.soundType, c.isSwitching, "rejected")
         /\ UNCHANGED <<nodes, testVars, therapyVars, timerVars, uiVars, pending>>
    ELSE IF ctxState = "suspended"
    THEN /\ Len(pending) < MaxPending
         /\ pending' = Append(pending, c)
         /\ currentSound' = snd
         /\ last' = Ran(c.op, c.soundType, c.isSwitching, "pending")
         /\ nodes' = SwitchCleanup(nodes, c.isSwitching)
         /\ UNCHANGED <<testVars, therapyVars, timerVars, uiVars>>
    ELSE Continue(c, snd) /\ UNCHANGED pending

\* a call of an async method up to its await, resumeContext lines 444-448:
\* without a context reading audioContext.state raises a TypeError and the
\* promise is rejected; a suspended context suspends the call at resume();
\* otherwise the call continues in the same turn
Invoke(c, snd) ==
    IF audioContext = Null
    THEN /\ currentSound' = snd
         /\ last' = Ran(c.op, c.soundType, c.isSwitching, "rejected")
         /\ UNCHANGED <<nodes, testVars, therapyVars, timerVars, uiVars, pending>>
    ELSE IF ctxState = "suspended"
    THEN /\ Len(pending) < MaxPending
         /\ pending' = Append(pending, c)
         /\ currentSound' = snd
         /\ last' = Ran(c.op, c.soundType, c.isSwitching, "pending")
         /\ UNCHANGED <<nodes, testVars, therapyVars, timerVars, uiVars>>
    ELSE Continue(c, snd) /\ UNCHANGED pending

\* what no engine call touches
Frame == UNCHANGED <<engineVars, currentFrequency, currentVolume, therapyDuration,
                     now, autoStopCalls, synth>>

\* a direct call of audioEngine.stopTherapy()
ApiStopTherapy ==
    /\ stopTherapy
    /\ last' = Ran("stopTherapy", "none", FALSE,
                   IF StopTherapyFails THEN "raised" ELSE "ok")
    /\ UNCHANGED <<testVars, currentSound, uiVars, pending>>
    /\ Frame

\* toggleTherapy, src/app.js lines 162-178 (and part_000 lines 206-214)
ToggleTherapy ==
    /\ IF isTherapyPlaying
       THEN /\ stopTherapy
            /\ therapyBtnPlaying' = IF StopTherapyFails THEN therapyBtnPlaying ELSE FALSE
            /\ last' = Ran("stopTherapy", "none", FALSE,
                           IF StopTherapyFails THEN "raised" ELSE "ok")
            /\ UNCHANGED <<testVars, currentSound, testToneBtnPlaying, pending>>
       ELSE Invoke(Call("startTherapy", currentSound, FALSE, "toggleTherapy"), currentSound)
    /\ Frame

\* selectSound, lines 132-157: the switch is requested and not awaited
SelectSound(soundType) ==
    /\ IF isTherapyPlaying
       THEN Invoke(Call("startTherapy", soundType, TRUE, "selectSound"), soundType)
       ELSE /\ currentSound' = soundType
            /\ last' = Ran("selectSound", soundType, FALSE, "ok")
            /\ UNCHANGED <<nodes, testVars, therapyVars, timerVars, uiVars, pending>>
    /\ Frame

\* a direct call of audioEngine.stopTestTone()
ApiStopTestTone ==
    /\ stopTestTone
    /\ last' = Ran("stopTestTone", "none", FALSE,
                   IF StopTestToneFails THEN "raised" ELSE "ok")
    /\ UNCHANGED <<therapyVars, timerVars, currentSound, uiVars, pending>>
    /\ Frame

\* toggleTestTone, lines 90-103
ToggleTestTone ==
    /\ IF isTestTonePlaying
       THEN /\ stopTestTone
            /\ testToneBtnPlaying' = IF StopTestToneFails THEN testToneBtnPlaying ELSE FALSE
            /\ last' = Ran("stopTestTone", "none", FALSE,
                           IF StopTestToneFails THEN "raised" ELSE "ok")
            /\ UNCHANGED <<therapyVars, timerVars, currentSound, therapyBtnPlaying, pending>>
       ELSE Invoke(Call("playTestTone", "none", FALSE, "toggleTestTone"), currentSound)
    /\ Frame

\* a setFrequency that retunes the oscillator and leaves the notch filter
SetFrequencyNodesOscillatorOnly(ns, frequency) ==
    IF isTestTonePlaying /\ testOscillator # Null
    THEN ParamSet(ns, testOscillator, frequency) ELSE ns

\* setFrequency, lines 453-471 (called by updateFrequency, lines 52-62)
SetFrequencyNodes(ns, frequency) ==
    LET a == IF isTestTonePlaying /\ testOscillator # Null
             THEN ParamSet(ns, testOscillator, frequency) ELSE ns
    IN  IF isTherapyPlaying /\ notchFilter # Null
        THEN ParamSet(a, notchFilter, frequency) ELSE a

SetFrequency(frequency) ==
    /\ currentFrequency' = frequency
    /\ nodes' = SetFrequencyNodes(nodes, frequency)
    /\ last' = Ran("setFrequency", "none", FALSE, "ok")
    /\ UNCHANGED <<engineVars, testVars, therapyVars, currentVolume, currentSound,
                   timerVars, therapyDuration, now, pending, uiVars, autoStopCalls, synth>>

\* setVolume, lines 476-484 (called by the volume slider, lines 112-119)
SetVolume(volume) ==
    /\ currentVolume' = volume
    /\ nodes' = IF masterGain # Null THEN ParamSet(nodes, masterGain, volume) ELSE nodes
    /\ last' = Ran("setVolume", "none", FALSE, "ok")
    /\ UNCHANGED <<engineVars, testVars, therapyVars, currentFrequency, currentSound,
                   timerVars, therapyDuration, now, pending, uiVars, autoStopCalls, synth>>

\* getAnalyserData, lines 845-856, called by draw once per frame (line 209):
\* null without an analyser, else the analyser's time-domain bytes; the
\* outcome is what it returns
GetAnalyserData ==
    /\ last' = Ran("getAnalyserData", "none", FALSE,
                   IF analyser = Null THEN "null" ELSE "snapshot")
    /\ UNCHANGED <<engineVars, nodes, testVars, therapyVars, paramVars, timerVars,
                   therapyDuration, now, pending, uiVars, autoStopCalls, synth>>

\* ------------------------------------------------- the synthesizer's loops
\* create<Texture>Buffer(duration) up to its loops, lines 542-545 (and the
\* same three lines of the other five): createBuffer raises
\* NotSupportedError for a length of 0
SynthCall(texture, halfSeconds, sampleRate) ==
    /\ audioContext # Null
    /\ synth.phase = "idle"
    /\ LET length == BufferLength(sampleRate, halfSeconds)
       IN  /\ synth' = [SynthIdle EXCEPT
                          !.phase = IF length <= 0 THEN "raised" ELSE "filling",
                          !.texture = texture, !.halfSeconds = halfSeconds,
                          !.sampleRate = sampleRate, !.length = Max({length, 0})]
           /\ last' = Ran("createBuffer", texture, FALSE,
                          IF length <= 0 THEN "raised" ELSE "ok")
    /\ UNCHANGED <<engineVars, nodes, testVars, therapyVars, paramVars, timerVars,
                   therapyDuration, now, pending, uiVars, autoStopCalls>>

\* one turn of the inner loop, `for (let i = 0; i < bufferSize; i++)`, with
\* what follows its last turn (the next channel, or the return).  A write
\* past the end of the Float32Array is dropped.  lastOut starts from 0 in
\* each channel (lines 566, 589).  Only the brown-noise value is kept; the
\* sample written is not.
SynthSample(white) ==
    /\ synth.phase = "filling"
    /\ LET i == synth.i
           ch == synth.channel
           prev == IF i = 0 THEN 0 ELSE synth.lastOut
           out == BrownStep(prev, white)
           more == (i + 1) * 2 < synth.sampleRate * synth.halfSeconds
           filled == [synth EXCEPT
                        !.written[ch + 1] = @ \cup ({i} \cap 0..(synth.length - 1)),
                        !.i = IF more THEN i + 1 ELSE 0,
                        !.channel = IF more THEN ch ELSE ch + 1,
                        !.phase = IF ~more /\ ch + 1 = Channels THEN "done"
                                  ELSE "filling"]
       IN  synth' = IF IsBrown(synth.texture)
                    THEN [filled EXCEPT !.prev = prev, !.white = white,
                                        !.out = out, !.lastOut = out]
                    ELSE filled
    /\ UNCHANGED <<engineVars, nodes, testVars, therapyVars, paramVars, timerVars,
                   therapyDuration, now, pending, uiVars, autoStopCalls, last>>

\* ------------------------------------------------------------ the audio device
\* the promise of the oldest resume() is fulfilled: the context runs and the
\* suspended call continues
ResumeComplete ==
    /\ pending # << >>
    /\ Continue(Head(pending), currentSound)
    /\ pending' = Tail(pending)
    /\ ctxState' = IF ctxState = "suspended" THEN "running" ELSE ctxState
    /\ UNCHANGED <<audioContext, masterGain, analyser, currentFrequency, currentVolume,
                   therapyDuration, now, autoStopCalls, synth>>

\* the promise of the oldest resume() is rejected: the call ends there, and
\* so does the handler awaiting it
ResumeReject ==
    /\ pending # << >>
    /\ pending' = Tail(pending)
    /\ last' = LET c == Head(pending)
               IN  Ran(c.op, c.soundType, c.isSwitching, "rejected")
    /\ UNCHANGED <<engineVars, nodes, testVars, therapyVars, paramVars, timerVars,
                   therapyDuration, now, uiVars, autoStopCalls, synth>>

\* the user agent suspends a running context (the page is backgrounded, the
\* device is taken): resumeContext tests for it on every call
DeviceSuspend ==
    /\ ctxState = "running"
    /\ ctxState' = "suspended"
    /\ last' = Ran("suspend", "none", FALSE, "ok")
    /\ UNCHANGED <<audioContext, masterGain, analyser, nodes, testVars, therapyVars,
                   paramVars, timerVars, therapyDuration, now, pending, uiVars,
                   autoStopCalls, synth>>

\* a fault of the audio device on one node the engine holds: from now on its
\* stop() and disconnect() raise.  At most one node is faulty.
NodeFault(id) ==
    /\ id \in {therapySource, notchFilter, therapyGain, testOscillator, testGain} \ {Null}
    /\ \A i \in DOMAIN nodes : ~nodes[i].faulty
    /\ nodes' = [nodes EXCEPT ![id].faulty = TRUE]
    /\ last' = Ran("fault", "none", FALSE, "ok")
    /\ UNCHANGED <<engineVars, testVars, therapyVars, paramVars, timerVars,
                   therapyDuration, now, pending, uiVars, autoStopCalls, synth>>

\* ------------------------------------------------------------------- time
\* the callback of setInterval, lines 812-815, one second after the last
TickBody ==
    /\ liveTimers # {}
    /\ now' = now + 1
    /\ therapyDuration' = now' - therapyStartTime
    /\ last' = Ran("tick", "none", FALSE, "ok")
    /\ UNCHANGED <<engineVars, nodes, testVars, therapyVars, paramVars, timerVars,
                   pending, uiVars, autoStopCalls, synth>>

TimerTick == now < MaxNow /\ TickBody

\* a second passes with no interval set
ClockAdvance ==
    /\ liveTimers = {}
    /\ now < MaxNow
    /\ now' = now + 1
    /\ last' = Ran("clock", "none", FALSE, "ok")
    /\ UNCHANGED <<engineVars, nodes, testVars, therapyVars, paramVars, timerVars,
                   therapyDuration, pending, uiVars, autoStopCalls, synth>>

\* ---------------------------------------------------------------- teardown
\* destroy, lines 861-868, called by the beforeunload handler, lines 355-359
Destroy ==
    /\ IF StopTestToneFails
       THEN stopTestTone /\ UNCHANGED <<therapyVars, timerVars, ctxState>>
       ELSE IF StopTherapyFails
       THEN /\ nodes' = Collect(StopTherapyPartNodes(StopTestToneNodes(nodes)),
                                {therapySource, notchFilter, therapyGain})
            /\ stopTestToneFields
            /\ stopTherapyPartFields
            /\ UNCHANGED ctxState
       ELSE /\ nodes' = Collect(StopTherapyNodes(StopTestToneNodes(nodes)), {})
            /\ stopTestToneFields
            /\ stopTherapyFields
            /\ ctxState' = IF audioContext # Null THEN "closed" ELSE ctxState
    /\ last' = Ran("destroy", "none", FALSE,
                   IF StopTestToneFails \/ StopTherapyFails THEN "raised" ELSE "ok")
    /\ UNCHANGED <<audioContext, masterGain, analyser, paramVars, therapyDuration,
                   now, pending, uiVars, autoStopCalls, synth>>

\* ---------------------------------------------------------- specifications
\* what the device and the clock do
Device == ResumeComplete \/ ResumeReject \/ DeviceSuspend

Clock == TimerTick \/ ClockAdvance

\* The whole program within one second of the clock: every handler and the
\* device, each handler with the smallest set of inputs.
Next ==
    \/ ToggleTherapy
    \/ ApiStopTherapy
    \/ \E s \in CoreSounds : SelectSound(s)
    \/ ToggleTestTone
    \/ ApiStopTestTone
    \/ \E f \in CoreFrequencies : SetFrequency(f)
    \/ \E v \in CoreVolumes : SetVolume(v)
    \/ Device
    \/ Destroy

Spec == Init /\ [][Next]_vars

\* The therapy session alone (the test tone and the volume are left as the
\* constructor set them), with the clock and every kind of sound identifier.
NextTherapy ==
    \/ ToggleTherapy
    \/ ApiStopTherapy
    \/ \E s \in SoundInputs : SelectSound(s)
    \/ \E f \in CoreFrequencies : SetFrequency(f)
    \/ Device
    \/ Clock
    \/ Destroy

SpecTherapy == Init /\ [][NextTherapy]_vars

\* The parameters, with every kind of input, around sessions and test tones
\* on a device that is never suspended again once it runs.
NextParams ==
    \/ \E f \in FrequencyInputs : SetFrequency(f)
    \/ \E v \in VolumeInputs : SetVolume(v)
    \/ ToggleTherapy
    \/ ToggleTestTone
    \/ ResumeComplete

SpecParams == Init /\ [][NextParams]_vars

\* The visualizer's pull of the analyser around sessions, live switches and
\* the device.
NextVisualizer ==
    \/ GetAnalyserData
    \/ ToggleTherapy
    \/ ApiStopTherapy
    \/ \E s \in CoreSounds : SelectSound(s)
    \/ Device

SpecVisualizer == Init /\ [][NextVisualizer]_vars

\* The six synthesizers, each with every duration up to MaxHalfSeconds and
\* every sample rate up to MaxSampleRate.
NextSynth ==
    \/ \E t \in Textures, h \in 1..MaxHalfSeconds, r \in 1..MaxSampleRate :
          SynthCall(t, h, r)
    \/ \E w \in WhiteInputs : SynthSample(w)

SpecSynth == Init /\ [][NextSynth]_vars

\* The two toggle buttons alone, clicked at any time, and the device.
NextButtons ==
    \/ ToggleTherapy
    \/ ToggleTestTone
    \/ Device

SpecButtons == Init /\ [][NextButtons]_vars

\* Teardown with one faulty node: sessions and test tones on a device that
\* is never suspended again once it runs, and a fault on a node that is held.
NextFaults ==
    \/ ToggleTherapy
    \/ ApiStopTherapy
    \/ ToggleTestTone
    \/ ApiStopTestTone
    \/ \E s \in CoreSounds : SelectSound(s)
    \/ ResumeComplete
    \/ \E id \in (AnalyserId + 1)..(AnalyserId + MaxNodes) : NodeFault(id)

SpecFaults == Init /\ [][NextFaults]_vars

\* One long session: the therapy button pressed once while idle, the device
\* and the one-second timer, past the 30-minute mark, with no manual stop.
LongTick == now < AutoStopSeconds + AutoStopSlack /\ TickBody

StartSession == ~isTherapyPlaying /\ pending = << >> /\ ToggleTherapy

NextLongSession ==
    \/ StartSession
    \/ ResumeComplete
    \/ LongTick

SpecLongSession == Init /\ [][NextLongSession]_vars

\* The page up to its unloading: the handlers run until destroy has closed
\* the context; after that only the device acts, settling the resume()
\* promises that were pending when destroy ran.
Alive == ctxState # "closed"

LiveToggleTherapy == Alive /\ ToggleTherapy

LiveToggleTestTone == Alive /\ ToggleTestTone

LiveSelectSound == Alive /\ \E s \in CoreSounds : SelectSound(s)

LiveDeviceSuspend == Alive /\ DeviceSuspend

NextTeardown ==
    \/ LiveToggleTherapy
    \/ LiveToggleTestTone
    \/ LiveSelectSound
    \/ LiveDeviceSuspend
    \/ ResumeComplete
    \/ ResumeReject
    \/ Destroy

SpecTeardown == Init /\ [][NextTeardown]_vars

\* ------------------------------------------------------------------ claims
TherapyHandles == {therapySource, notchFilter, therapyGain}

\* source -> filter -> gain -> analyser
TherapyChain(ns) ==
    /\ TherapyHandles \subseteq DOMAIN ns
    /\ notchFilter \in ns[therapySource].out
    /\ therapyGain \in ns[notchFilter].out
    /\ analyser # Null
    /\ analyser \in ns[therapyGain].out

\* a call of startTherapy ran its code after the await in the last turn
StartRan(isSwitching) ==
    /\ last.op = "startTherapy"
    /\ last.isSwitching = isSwitching
    /\ last.outcome = "ok"

\* C1: between two turns of the event loop, isTherapyPlaying true means the
\* source, the filter and the gain are held and connected source -> filter ->
\* gain -> analyser, and isTherapyPlaying false means all three are null.
C1_GraphInvariant ==
    /\ isTherapyPlaying => Null \notin TherapyHandles /\ TherapyChain(nodes)
    /\ ~isTherapyPlaying => TherapyHandles = {Null}

\* C1 witness: therapy plays after a live switch, the chain in place
C1_Witness ==
    /\ StartRan(TRUE)
    /\ isTherapyPlaying
    /\ TherapyChain(nodes)
    /\ timerInterval # Null

\* C2: after 1800 seconds of one uninterrupted session therapy has been
\* stopped and the auto-stop callback has been invoked exactly once.
C2_AutoStop ==
    (therapyStartTime # Null /\ now - therapyStartTime >= AutoStopSeconds)
        => (~isTherapyPlaying /\ autoStopCalls = 1)

\* C3: a startTherapy call with isSwitching false that finds isTherapyPlaying
\* true after its await stops therapy and starts nothing, whatever its
\* texture: the flag is false, the handles are released, the timer is
\* cleared and no node has been created or left playing.
C3_ToggleStops ==
    [][(StartRan(FALSE)' /\ isTherapyPlaying) =>
          /\ ~isTherapyPlaying'
          /\ TherapyHandles' = {Null}
          /\ timerInterval' = Null
          /\ liveTimers' = {}
          /\ DOMAIN nodes' \subseteq DOMAIN nodes
          /\ \A i \in DOMAIN nodes' : nodes'[i].kind # "bufferSource"]_vars

\* C3 witness: a non-switching call has run and therapy is stopped; a call
\* that found therapy idle would have left it playing
C3_Witness ==
    /\ StartRan(FALSE)
    /\ ~isTherapyPlaying
    /\ last.soundType = "harp"

\* C4: a switch while therapy plays keeps isTherapyPlaying true, stops the
\* old source and holds a new, started source looping the buffer of the
\* requested texture; the filter and the gain are the objects they were.
C4_LiveSwitch ==
    [][(StartRan(TRUE)' /\ isTherapyPlaying) =>
          /\ isTherapyPlaying'
          /\ therapySource' # therapySource
          /\ therapySource' \in DOMAIN nodes'
          /\ nodes'[therapySource'].state = "started"
          /\ nodes'[therapySource'].loop
          /\ nodes'[therapySource'].buffer = CreateBuffer(last'.soundType)
          /\ \A i \in DOMAIN nodes' :
                nodes'[i].state = "started" /\ nodes'[i].kind = "bufferSource"
                    => i = therapySource'
          /\ notchFilter' = notchFilter
          /\ therapyGain' = therapyGain
          /\ TherapyChain(nodes)']_vars

\* C4 witness: a switch to rain has run on a session whose timer runs
C4_Witness ==
    /\ StartRan(TRUE)
    /\ isTherapyPlaying
    /\ timerInterval # Null
    /\ last.soundType = "rain"
    /\ nodes[therapySource].buffer.texture = "rain"

\* C5: therapy goes from idle to playing only by a non-switching
\* startTherapy, and from playing to idle only where stopTherapy runs (the
\* call itself, the toggle inside a non-switching startTherapy, destroy); a
\* switching startTherapy never takes it from idle to playing.
C5_Transitions ==
    [][/\ (~isTherapyPlaying /\ isTherapyPlaying') => StartRan(FALSE)'
       /\ (isTherapyPlaying /\ ~isTherapyPlaying') =>
             \/ last'.op \in {"stopTherapy", "destroy"}
             \/ StartRan(FALSE)'
       /\ StartRan(TRUE)' => (isTherapyPlaying /\ isTherapyPlaying')]_vars

\* C6: a non-switching startTherapy that starts therapy restarts the session
\* timer from zero, and a switching startTherapy leaves the start time, the
\* elapsed counter and the interval as they were.
C6_TimerReset ==
    [][/\ (StartRan(FALSE)' /\ isTherapyPlaying') =>
             /\ therapyStartTime' = now'
             /\ therapyDuration' = 0
             /\ timerInterval' # Null
       /\ StartRan(TRUE)' =>
             UNCHANGED <<therapyStartTime, therapyDuration, timerInterval, liveTimers>>]_vars

\* the clamp the specification describes
Clamp(lo, hi, x) == IF x < lo THEN lo ELSE IF x > hi THEN hi ELSE x

\* C7: setFrequency stores its input clamped to [250, 16000], so
\* currentFrequency is within that range in every state.
C7_FrequencyClamped ==
    /\ currentFrequency \in MinFrequency..MaxFrequency
    /\ last.op = "setFrequency" =>
          currentFrequency \in {Clamp(MinFrequency, MaxFrequency, f) : f \in FrequencyInputs}

\* C8: setVolume stores its input clamped to [0, 1] and the master gain
\* carries the same value wherever the audio device initialized.
C8_VolumeClamped ==
    audioContext # Null =>
        /\ currentVolume \in 0..100
        /\ nodes[masterGain].param = currentVolume

\* the therapy and the test tone as their stop leaves them
TherapyStopped ==
    /\ ~isTherapyPlaying
    /\ TherapyHandles = {Null}
    /\ timerInterval = Null
    /\ liveTimers = {}

TestToneStopped ==
    /\ ~isTestTonePlaying
    /\ testOscillator = Null
    /\ testGain = Null

\* everything but the record of the last turn and the buttons
engineState == <<engineVars, nodes, testVars, therapyVars, paramVars, timerVars,
                 therapyDuration, now, pending, autoStopCalls>>

\* C9: stopTherapy and stopTestTone never raise and leave their resource
\* stopped; called on a resource that is already stopped (never started, or
\* stopped by the call before) they change nothing.
C9_StopsIdempotent ==
    [][/\ last'.op = "stopTherapy" =>
             /\ last'.outcome = "ok"
             /\ TherapyStopped'
             /\ TherapyStopped => UNCHANGED engineState
       /\ last'.op = "stopTestTone" =>
             /\ last'.outcome = "ok"
             /\ TestToneStopped'
             /\ TestToneStopped => UNCHANGED engineState]_vars

\* C9 witness: stopTherapy has run on an engine that never started therapy
\* and whose test tone plays
C9_Witness ==
    /\ last.op = "stopTherapy"
    /\ last.outcome = "ok"
    /\ therapyStartTime = Null
    /\ TherapyStopped
    /\ isTestTonePlaying

\* C10: when initAudioContext failed no playback operation raises or rejects,
\* nothing plays and no node exists.
C10_SilentWithoutDevice ==
    audioContext = Null =>
        /\ last.outcome \notin {"rejected", "raised"}
        /\ ~isTestTonePlaying
        /\ ~isTherapyPlaying
        /\ DOMAIN nodes = {}
        /\ TherapyHandles \cup {testOscillator, testGain} = {Null}

\* C11: when one node's stop() or disconnect() raises, stopTherapy and
\* stopTestTone swallow the error and release every handle: the call ends
\* without raising and its resource is stopped.
C11_TeardownSwallows ==
    [][/\ last'.op = "stopTherapy" =>
             (last'.outcome = "ok" /\ TherapyStopped')
       /\ last'.op = "stopTestTone" =>
             (last'.outcome = "ok" /\ TestToneStopped')]_vars

\* the nodes held by the handles hs are in ns2 what they were in ns1
SameNodes(hs, ns1, ns2) ==
    \A h \in hs \ {Null} : h \in DOMAIN ns2 /\ ns2[h] = ns1[h]

\* C12: playTestTone and stopTestTone leave the therapy flag, its handles,
\* their nodes and the timer as they were; startTherapy, stopTherapy and
\* selectSound leave the test-tone flag, its handles and their nodes as they
\* were.
C12_Independent ==
    [][/\ last'.op \in {"playTestTone", "stopTestTone"} =>
             /\ UNCHANGED <<therapyVars, timerVars, therapyDuration>>
             /\ SameNodes(TherapyHandles, nodes, nodes')
       /\ last'.op \in {"startTherapy", "stopTherapy", "selectSound"} =>
             /\ UNCHANGED testVars
             /\ SameNodes({testOscillator, testGain}, nodes, nodes')]_vars

\* C12 witness: the test tone has been started while therapy plays: both
\* play at once
C12_Witness ==
    /\ last.op = "playTestTone"
    /\ last.outcome = "ok"
    /\ isTestTonePlaying
    /\ isTherapyPlaying
    /\ TherapyChain(nodes)
    /\ nodes[testOscillator].state = "started"

\* C13: while therapy plays the notch filter is centred at currentFrequency,
\* and while the test tone plays the oscillator runs at currentFrequency.
C13_Retuned ==
    /\ isTherapyPlaying =>
          (notchFilter \in DOMAIN nodes /\ nodes[notchFilter].param = currentFrequency)
    /\ isTestTonePlaying =>
          (testOscillator \in DOMAIN nodes
           /\ nodes[testOscillator].param = currentFrequency)

\* C13 witness: setFrequency has moved the frequency off the default while
\* therapy and the test tone both play
C13_Witness ==
    /\ last.op = "setFrequency"
    /\ currentFrequency # DefaultFrequency
    /\ isTherapyPlaying
    /\ isTestTonePlaying
    /\ nodes[notchFilter].param = currentFrequency
    /\ nodes[testOscillator].param = currentFrequency

\* C14: getAnalyserData returns the "no data" value exactly when therapy is
\* not playing, a snapshot when it is, and changes nothing.
C14_SnapshotOnlyWhilePlaying ==
    [][last'.op = "getAnalyserData" =>
          /\ (last'.outcome = "snapshot") <=> isTherapyPlaying
          /\ (last'.outcome = "null") <=> ~isTherapyPlaying
          /\ UNCHANGED engineState]_vars

\* C15: a startTherapy that starts or switches with an identifier outside
\* the six textures plays what startTherapy('whitenoise') plays: a started,
\* looping source over the 2-second white-noise buffer, in the chain, with
\* the timer running after a non-switching start.
C15_UnknownFallsBack ==
    [][((StartRan(FALSE)' \/ StartRan(TRUE)')
            /\ last'.soundType \notin Textures /\ isTherapyPlaying') =>
          /\ nodes'[therapySource'].buffer = [texture |-> "whitenoise", duration |-> 2]
          /\ nodes'[therapySource'].state = "started"
          /\ nodes'[therapySource'].loop
          /\ TherapyChain(nodes)'
          /\ ~last'.isSwitching => timerInterval' # Null]_vars

\* C15 witness: the therapy button started a session with the identifier
\* 'harp' selected
C15_Witness ==
    /\ StartRan(FALSE)
    /\ last.soundType = "harp"
    /\ currentSound = "harp"
    /\ isTherapyPlaying
    /\ nodes[therapySource].buffer.texture = "whitenoise"

\* the sources of the given kind that were started and not stopped
Live(ns, kind) == {i \in DOMAIN ns : ns[i].kind = kind /\ ns[i].state = "started"}

\* C16: the only buffer source started and not stopped is the one
\* therapySource holds, and the only such oscillator is the one
\* testOscillator holds.
C16_NoLeak ==
    /\ Live(nodes, "bufferSource") \subseteq {therapySource} \ {Null}
    /\ Live(nodes, "oscillator") \subseteq {testOscillator} \ {Null}

\* C16 witness: a live switch has replaced the source while the test tone
\* plays: one live source and one live oscillator
C16_Witness ==
    /\ StartRan(TRUE)
    /\ isTestTonePlaying
    /\ Live(nodes, "bufferSource") = {therapySource}
    /\ Live(nodes, "oscillator") = {testOscillator}

\* C17: a startTherapy or playTestTone whose resume() is still pending or
\* was rejected has changed nothing: no node is created or touched, the
\* flags, the handles, the timer and the parameters are what they were, and
\* currentSound is what the caller left (selectSound assigns it before the
\* call, line 133).
C17_FailedResumeChangesNothing ==
    [][(last'.op \in {"startTherapy", "playTestTone"}
            /\ last'.outcome \in {"pending", "rejected"}) =>
          /\ UNCHANGED <<nodes, testVars, therapyVars, timerVars, therapyDuration,
                         currentFrequency, currentVolume, uiVars>>
          /\ currentSound' \in {currentSound, last'.soundType}
          /\ ~last'.isSwitching => currentSound' = currentSound]_vars

\* C17 witness: the resume() awaited by a live switch was rejected; therapy
\* still plays the source it played and the context is still suspended
C17_Witness ==
    /\ last.op = "startTherapy"
    /\ last.isSwitching
    /\ last.outcome = "rejected"
    /\ ctxState = "suspended"
    /\ pending = << >>
    /\ isTherapyPlaying
    /\ nodes[therapySource].state = "started"

\* C20: the one-second session timer is set exactly while isTherapyPlaying
\* is true.
C20_TimerIffPlaying ==
    /\ isTherapyPlaying <=> timerInterval # Null
    /\ isTherapyPlaying <=> liveTimers # {}

\* the buffer is full: both channels hold every index below its length
BufferFull ==
    \A c \in 1..Channels : synth.written[c] = 0..(synth.length - 1)

\* C18 as stated, for every duration D > 0: the synthesizer returns a buffer
\* of exactly sampleRate x D samples per channel, every index of both
\* channels written.
C18_ExactLength ==
    /\ synth.phase # "raised"
    /\ synth.phase = "done" =>
          /\ synth.length * 2 = synth.sampleRate * synth.halfSeconds
          /\ BufferFull

\* C18, amended: the same for every duration D > 0 for which sampleRate x D
\* is a whole number of samples.
C18_ExactLengthWholeSamples ==
    (synth.phase # "idle" /\ (synth.sampleRate * synth.halfSeconds) % 2 = 0) =>
        /\ synth.phase # "raised"
        /\ synth.phase = "done" =>
              /\ synth.length * 2 = synth.sampleRate * synth.halfSeconds
              /\ BufferFull

\* C18 witness: createWaveBuffer has returned a buffer of 2 s at 3 samples
\* per second: 6 samples in each channel
C18_Witness ==
    /\ synth.phase = "done"
    /\ synth.texture = "wave"
    /\ synth.halfSeconds = 4
    /\ synth.sampleRate = 3
    /\ synth.length = 6
    /\ BufferFull

\* C19: each brown-noise sample of rain and wave is
\* (prev + k * white) / (1 + k) with k = 0.02 in both places, within the
\* rounding of the fixed-point division, and prev takes that value.
C19_BrownRecurrence ==
    (synth.phase \in {"filling", "done"} /\ IsBrown(synth.texture)) =>
        LET d == synth.out * (FixedOne + BrownGain)
                 - (synth.prev * FixedOne + BrownGain * synth.white)
        IN  /\ d <= FixedOne + BrownGain
            /\ -d <= FixedOne + BrownGain
            /\ synth.lastOut = synth.out

\* C21: once every toggleTherapy and toggleTestTone handler has run to its
\* end (no call is suspended at resume()), each button carries the class
\* 'playing' exactly when the engine's flag is true.
C21_ButtonsFollowFlags ==
    pending = << >> =>
        /\ therapyBtnPlaying <=> isTherapyPlaying
        /\ testToneBtnPlaying <=> isTestTonePlaying

\* the last turn was a selectSound: with therapy idle it only assigns
\* currentSound, with therapy playing on a suspended context it leaves its
\* switch waiting at resume()
SelectSoundRan ==
    \/ last.op = "selectSound"
    \/ last.op = "startTherapy" /\ last.isSwitching /\ last.outcome = "pending"

\* C22: when the last suspended startTherapy completes after the most recent
\* selectSound, currentSound is the texture that selectSound was given, and
\* if therapy plays its looping buffer is the buffer of that texture.
C22_LastSelectionWins ==
    [][(SelectSoundRan /\ pending' = << >>
            /\ last'.op = "startTherapy" /\ last'.outcome = "ok") =>
          /\ currentSound' = last.soundType
          /\ isTherapyPlaying' =>
                nodes'[therapySource'].buffer = CreateBuffer(last.soundType)]_vars

\* C23: the only interval set and not cleared is the one timerInterval
\* holds, and startTimer runs only when no interval is held or live.
C23_OneTimer ==
    [][/\ liveTimers' = {timerInterval'} \ {Null}
       /\ Cardinality(liveTimers') <= 1
       /\ (StartRan(FALSE)' /\ isTherapyPlaying') =>
             (timerInterval = Null /\ liveTimers = {})]_vars

\* C23 witness: a second session has been started after the first one was
\* stopped: one interval is live, the one held
C23_Witness ==
    /\ StartRan(FALSE)
    /\ isTherapyPlaying
    /\ therapyDuration > 0
    /\ therapyStartTime = now
    /\ liveTimers = {timerInterval}

\* C24: once destroy has closed the context, both flags are false, every
\* test-tone and therapy handle is null and no timer is held or live, and
\* this stays so when a call suspended before destroy resumes afterwards.
C24_DestroyedStaysStopped ==
    ctxState = "closed" => TestToneStopped /\ TherapyStopped

====
